---- MODULE Spec2Model ----
(***************************************************************************)
(* Model of pipelines/image-classifier/explore.py: the sample exporter.    *)
(*                                                                         *)
(* The script is one straight-line module body.  Each statement is one     *)
(* action; pc names the statement about to run.  The dataset library, the  *)
(* image codec and the filesystem are the environment: what they hold is   *)
(* drawn from bounded sets in Init, and the ways their calls can fail are  *)
(* alternatives of the statement that makes the call.                      *)
(*                                                                         *)
(* Text is a tuple of one-character strings, so that file names can be     *)
(* built and taken apart character by character.  Paths in dirs and files  *)
(* are relative to data/samples.                                           *)
(***************************************************************************)
EXTENDS Integers, Sequences, FiniteSets, TLC

\* ---------------------------------------------------------------- bounds
MaxLen == 11
MaxTarget == 2
Period == 2
MaxRuns == 2

\* ------------------------------------------------------ program constants
\* range(10), line 14 (and the literal 10 of the last print, line 20)
ExportCount == 10

\* ------------------------------------------------------------------ text
DigitChars == <<"0", "1", "2", "3", "4", "5", "6", "7", "8", "9">>

DigitChar(d) == DigitChars[d + 1]

RECURSIVE Decimal(_)
Decimal(k) == IF k < 10 THEN <<DigitChar(k)>>
              ELSE Decimal(k \div 10) \o <<DigitChar(k % 10)>>

Format02dUnpadded(k) == Decimal(k)

\* the format spec 02d: decimal, zero-padded on the left to width 2
Format02d(k) == LET d == Decimal(k)
                IN  IF Len(d) < 2 THEN <<"0">> \o d ELSE d

\* f"{i:02d}_{label_name}.png"
FileName(k, name) == Format02d(k) \o <<"_">> \o name \o <<".", "p", "n", "g">>

SlashPositions(p) == {k \in 1..Len(p) : p[k] = "/"}

LastSlash(p) == CHOOSE k \in SlashPositions(p) : \A m \in SlashPositions(p) : m <= k

\* the directory part of a relative path; <<>> is data/samples itself
Parent(p) == IF SlashPositions(p) = {} THEN <<>>
             ELSE SubSeq(p, 1, LastSlash(p) - 1)

\* --------------------------------------------------------- environment
\* the class lists the dataset may carry: dataset.classes
Taxonomies == { << <<"B">>, <<"T", "/", "t">> >>,
                << <<"D">>, <<"D">> >>,
                << <<"B">>, <<"D">> >> }

\* label indices the dataset may hand out run from 0 to MaxTarget; the
\* taxonomies have two entries, so the largest is one past their end
TargetValues == 0..MaxTarget

\* the collection the dataset library would hand over: len items, item k
\* being (image k, label index targets[k mod Period]), so the label indices
\* repeat with period Period
Datasets == [len : 0..MaxLen, targets : [1..Period -> TargetValues], classes : Taxonomies]

NoDataset == [len |-> -1, targets |-> <<>>, classes |-> <<>>]

Unbound == -1

StaleContent == <<"old">>

PartialContent == <<"partial">>

ImageOf(k) == <<"img", k>>

TargetOf(ds, k) == ds.targets[(k % Period) + 1]

\* subdirectories NN_T of data/samples, one per exported index
SlashDirs == {Format02d(k) \o <<"_", "T">> : k \in 0..(ExportCount - 1)}

Stale(names) == [p \in names |-> StaleContent]

\* what may be at data/samples when a run starts
InitialFs ==
    { [samplesDir |-> "absent", dirs |-> {}, files |-> <<>>],
      [samplesDir |-> "file", dirs |-> {}, files |-> <<>>],
      [samplesDir |-> "dir", dirs |-> {}, files |-> <<>>],
      [samplesDir |-> "dir", dirs |-> {}, files |-> Stale({<<"j">>, FileName(0, <<"B">>)})],
      [samplesDir |-> "dir", dirs |-> {FileName(0, <<"B">>)}, files |-> <<>>],
      [samplesDir |-> "dir", dirs |-> SlashDirs, files |-> Stale({<<"j">>})] }

VARIABLES pc, err, remote, dataset, iter, i, image, idx, label_name,
          samplesDir, dirs, files, out, written, steps, run, prevNames, fs0

vars == <<pc, err, remote, dataset, iter, i, image, idx, label_name,
          samplesDir, dirs, files, out, written, steps, run, prevNames, fs0>>

fsvars == <<samplesDir, dirs, files>>

locals == <<iter, i, image, idx, label_name>>

FsState == [samplesDir |-> samplesDir, dirs |-> dirs, files |-> files]

Init ==
    /\ pc = "acquire"
    /\ err = "none"
    /\ remote \in Datasets
    /\ dataset = NoDataset
    /\ iter = 0
    /\ i = Unbound
    /\ image = <<>>
    /\ idx = Unbound
    /\ label_name = <<>>
    /\ \E fs \in InitialFs :
          /\ samplesDir = fs.samplesDir
          /\ dirs = fs.dirs
          /\ files = fs.files
          /\ fs0 = fs
    /\ out = <<>>
    /\ written = <<>>
    /\ steps = <<>>
    /\ run = 1
    /\ prevNames = {}

\* an exception that is caught and the statement tried again
RaiseAndRetry(e) == pc' = pc /\ err' = e

\* an exception leaves the module body: nothing catches it
Raise(e) == pc' = "failed" /\ err' = e

Did(s) == steps' = Append(steps, s)

\* line 5: datasets.FashionMNIST(root=data_dir, train=True, download=True)
Acquire ==
    /\ pc = "acquire"
    /\ Did(<<"acquire">>)
    /\ \/ /\ Raise("RuntimeError")
          /\ UNCHANGED dataset
       \/ /\ dataset' = remote
          /\ pc' = "print_size"
          /\ UNCHANGED err
    /\ UNCHANGED <<remote, locals, fsvars, out, written, run, prevNames, fs0>>

\* line 7: print(f"dataset size: {len(dataset)} images")
PrintSize ==
    /\ pc = "print_size"
    /\ Did(<<"print_size">>)
    /\ out' = Append(out, <<"size", dataset.len>>)
    /\ pc' = "print_shape"
    /\ UNCHANGED <<err, remote, dataset, locals, fsvars, written, run, prevNames, fs0>>

InRangeInclusive(ds, k) == 0 <= k /\ k <= ds.len

\* dataset[k]: the pair (image, label index), IndexError past the end
InRange(ds, k) == 0 <= k /\ k < ds.len

\* the metadata report without the look at the first image
PrintShapeNoRead ==
    /\ pc = "print_shape"
    /\ Did(<<"print_shape">>)
    /\ out' = Append(out, <<"shape", ImageOf(0)>>)
    /\ pc' = "print_labels"
    /\ UNCHANGED <<err, remote, dataset, locals, fsvars, written, run, prevNames, fs0>>

\* line 8: print(f"image shape: {dataset[0][0].size}")
PrintShape ==
    /\ pc = "print_shape"
    /\ Did(<<"print_shape">>)
    /\ IF InRange(dataset, 0)
       THEN /\ out' = Append(out, <<"shape", ImageOf(0)>>)
            /\ pc' = "print_labels"
            /\ UNCHANGED err
       ELSE /\ Raise("IndexError")
            /\ UNCHANGED out
    /\ UNCHANGED <<remote, dataset, locals, fsvars, written, run, prevNames, fs0>>

\* line 9: print(f"labels: {dataset.classes}")
PrintLabels ==
    /\ pc = "print_labels"
    /\ Did(<<"print_labels">>)
    /\ out' = Append(out, <<"labels", dataset.classes>>)
    /\ pc' = "mkdir"
    /\ UNCHANGED <<err, remote, dataset, locals, fsvars, written, run, prevNames, fs0>>

\* lines 11-12: samples_dir = Path("data/samples"); samples_dir.mkdir(exist_ok=True)
\* The parent data/ exists: the acquisition above created or found it.
\* exist_ok=True swallows FileExistsError only when the path is a directory.
ExistOkAlways(kind) == TRUE

ExistOkNever(kind) == FALSE

ExistOk(kind) == kind = "dir"

Mkdir ==
    /\ pc = "mkdir"
    /\ Did(<<"mkdir">>)
    /\ \/ /\ samplesDir # "absent"
          /\ ~ExistOk(samplesDir)
          /\ Raise("FileExistsError")
          /\ UNCHANGED samplesDir
       \/ /\ samplesDir # "absent"
          /\ ExistOk(samplesDir)
          /\ pc' = "for"
          /\ UNCHANGED <<err, samplesDir>>
       \/ /\ samplesDir = "absent"
          /\ \/ /\ samplesDir' = "dir"
                /\ pc' = "for"
                /\ UNCHANGED err
             \/ /\ Raise("PermissionError")
                /\ UNCHANGED samplesDir
    /\ UNCHANGED <<remote, dataset, locals, dirs, files, out, written, run, prevNames, fs0>>

RangeItemDescending(k) == ExportCount - 1 - k

\* the k-th value of range(10), k counted from 0
RangeItem(k) == k

\* line 14: for i in range(10): the iterator hands out 0..9, then the loop ends
For ==
    /\ pc = "for"
    /\ Did(<<"for", iter>>)
    /\ IF iter < ExportCount
       THEN /\ i' = RangeItem(iter)
            /\ iter' = iter + 1
            /\ pc' = "getitem"
       ELSE /\ pc' = "report"
            /\ UNCHANGED <<i, iter>>
    /\ UNCHANGED <<err, remote, dataset, image, idx, label_name, fsvars, out, written,
                   run, prevNames, fs0>>

\* line 15: image, idx = dataset[i]
GetItem ==
    /\ pc = "getitem"
    /\ Did(<<"getitem", i>>)
    /\ IF InRange(dataset, i)
       THEN /\ image' = ImageOf(i)
            /\ idx' = TargetOf(dataset, i)
            /\ pc' = "classes"
            /\ UNCHANGED err
       ELSE /\ Raise("IndexError")
            /\ UNCHANGED <<image, idx>>
    /\ UNCHANGED <<remote, dataset, iter, i, label_name, fsvars, out, written,
                   run, prevNames, fs0>>

ClassAtPrevious(classes, k) == classes[((k - 1) % Len(classes)) + 1]

\* classes[k] of a Python list, counted from 0 (k is never negative here)
ClassAt(classes, k) == classes[k + 1]

\* line 16: label_name = dataset.classes[idx]
Classes ==
    /\ pc = "classes"
    /\ Did(<<"classes", i>>)
    /\ IF idx < Len(dataset.classes)
       THEN /\ label_name' = ClassAt(dataset.classes, idx)
            /\ pc' = "print"
            /\ UNCHANGED err
       ELSE /\ Raise("IndexError")
            /\ UNCHANGED label_name
    /\ UNCHANGED <<remote, dataset, iter, i, image, idx, fsvars, out, written,
                   run, prevNames, fs0>>

\* the loop body without its print
PrintLabelSilent ==
    /\ pc = "print"
    /\ Did(<<"print", i>>)
    /\ pc' = "save"
    /\ UNCHANGED <<err, remote, dataset, locals, fsvars, out, written, run, prevNames, fs0>>

\* line 17: print(label_name)
PrintLabel ==
    /\ pc = "print"
    /\ Did(<<"print", i>>)
    /\ out' = Append(out, <<"label", label_name>>)
    /\ pc' = "save"
    /\ UNCHANGED <<err, remote, dataset, locals, fsvars, written, run, prevNames, fs0>>

\* files with path p holding content c
WriteFile(fs, p, c) == [q \in DOMAIN fs \cup {p} |-> IF q = p THEN c ELSE fs[q]]

SavePathNoIndex(k, name) == name \o <<".", "p", "n", "g">>

\* samples_dir / name: name never starts with "/", so the result is name below
\* data/samples
SavePath(k, name) == FileName(k, name)

\* line 18: image.save(samples_dir / f"{i:02d}_{label_name}.png")
\* The codec opens the path for writing (creating or truncating the file) and
\* encodes into it.  The open fails when the directory part of the path is not
\* an existing directory or the path itself is one; open and encoding can also
\* fail for reasons outside the program (permissions, a full disk), and then
\* a file that was there before may be left truncated.
Save ==
    /\ pc = "save"
    /\ Did(<<"save", i>>)
    /\ LET p == SavePath(i, label_name)
           d == Parent(p)
       IN  \/ /\ d # <<>>
              /\ d \notin dirs
              /\ Raise(IF d \in DOMAIN files THEN "NotADirectoryError" ELSE "FileNotFoundError")
              /\ UNCHANGED <<files, written>>
           \/ /\ p \in dirs
              /\ Raise("IsADirectoryError")
              /\ UNCHANGED <<files, written>>
           \/ /\ d = <<>> \/ d \in dirs
              /\ p \notin dirs
              /\ \/ /\ files' = WriteFile(files, p, image)
                    /\ written' = Append(written, [index |-> i, path |-> p, content |-> image])
                    /\ pc' = "for"
                    /\ UNCHANGED err
                 \/ /\ Raise("OSError")
                    /\ \/ UNCHANGED files
                       \/ /\ p \in DOMAIN files
                          /\ files' = WriteFile(files, p, PartialContent)
                    /\ UNCHANGED written
    /\ UNCHANGED <<remote, dataset, locals, samplesDir, dirs, out, run, prevNames, fs0>>

\* line 20: print(f"saved 10 samples to {samples_dir}")
Report ==
    /\ pc = "report"
    /\ Did(<<"report">>)
    /\ out' = Append(out, <<"saved", 10>>)
    /\ pc' = "done"
    /\ UNCHANGED <<err, remote, dataset, locals, fsvars, written, run, prevNames, fs0>>

\* the script is started again on what the finished run left on disk
Rerun ==
    /\ pc = "done"
    /\ run < MaxRuns
    /\ run' = run + 1
    /\ pc' = "acquire"
    /\ dataset' = NoDataset
    /\ iter' = 0
    /\ i' = Unbound
    /\ image' = <<>>
    /\ idx' = Unbound
    /\ label_name' = <<>>
    /\ out' = <<>>
    /\ written' = <<>>
    /\ steps' = <<>>
    /\ prevNames' = DOMAIN files
    /\ fs0' = FsState
    /\ UNCHANGED <<err, remote, fsvars>>

Step ==
    \/ Acquire
    \/ PrintSize
    \/ PrintShape
    \/ PrintLabels
    \/ Mkdir
    \/ For
    \/ GetItem
    \/ Classes
    \/ PrintLabel
    \/ Save
    \/ Report

Next == Step \/ Rerun

Spec == Init /\ [][Next]_vars

\* every call the script makes returns or raises; the script runs to its end
FairSpec == Spec /\ WF_vars(Step)

\* ------------------------------------------------------ reading the state
Terminated == pc \in {"done", "failed"}

LastStep == steps[Len(steps)]

Acquired == dataset # NoDataset

\* the label lines among the lines printed so far
LabelLines == Cardinality({k \in 1..Len(out) : out[k][1] = "label"})

Reported == \E k \in 1..Len(out) : out[k][1] = "saved"

WrittenPaths == {written[k].path : k \in 1..Len(written)}

WrittenIndices == {written[k].index : k \in 1..Len(written)}

\* the files directly inside data/samples
TopFiles == {p \in DOMAIN files : SlashPositions(p) = {}}

IsDigit(c) == \E d \in 0..9 : DigitChars[d + 1] = c

DigitValue(c) == CHOOSE d \in 0..9 : DigitChars[d + 1] = c

\* p reads NN_<something>.png with NN the two decimal digits of k
IsSampleName(p, k) ==
    /\ Len(p) >= 7
    /\ IsDigit(p[1]) /\ IsDigit(p[2])
    /\ 10 * DigitValue(p[1]) + DigitValue(p[2]) = k
    /\ p[3] = "_"
    /\ SubSeq(p, Len(p) - 3, Len(p)) = <<".", "p", "n", "g">>

\* what stands between NN_ and .png
LabelSegment(p) == SubSeq(p, 4, Len(p) - 4)

LoopStatements == {"for", "getitem", "classes", "print", "save"}

EnvironmentErrors == {"RuntimeError", "PermissionError", "OSError"}

\* ------------------------------------------------------------------- C1
\* C1 as stated: after a successful run over a dataset of at least 10 items,
\* whatever the taxonomy and whatever was in data/samples before, the
\* directory holds exactly 10 files, one per index 0..9, named NN_<label>.png.
C1_ExactlyTenFilesInDirectory ==
    (pc = "done" /\ dataset.len >= ExportCount) =>
        /\ Cardinality(TopFiles) = ExportCount
        /\ DOMAIN files = TopFiles
        /\ \A k \in 0..(ExportCount - 1) : \E p \in TopFiles : IsSampleName(p, k)

\* C1 amended: a successful run has written exactly 10 files, one per index
\* 0..9 in that order, each at data/samples/NN_<label>.png (which lies in a
\* subdirectory when the label holds a "/"); the files under data/samples
\* are then the ones that were there before together with these 10, so there
\* are exactly 10 of them when there was none before.
C1_TenFilesWritten ==
    pc = "done" =>
        /\ dataset.len >= ExportCount
        /\ Len(written) = ExportCount
        /\ \A k \in 0..(ExportCount - 1) :
              /\ written[k + 1].index = k
              /\ IsSampleName(written[k + 1].path, k)
        /\ Cardinality(WrittenPaths) = ExportCount
        /\ DOMAIN files = DOMAIN fs0.files \cup WrittenPaths
        /\ (DOMAIN fs0.files = {} => Cardinality(DOMAIN files) = ExportCount)

C1_Witness ==
    /\ pc = "done"
    /\ run = 1
    /\ <<"j">> \in DOMAIN files
    /\ Cardinality(DOMAIN files) > ExportCount

\* ------------------------------------------------------------------- C2
\* C2: at every point of a run, the name of each file written so far carries,
\* between NN_ and .png, the taxonomy entry at the label index the dataset
\* returns for that sample.
C2_LabelSegmentIsTaxonomyEntry ==
    \A k \in 1..Len(written) :
        LabelSegment(written[k].path)
            = dataset.classes[TargetOf(dataset, written[k].index) + 1]

\* two samples with the same label, from a taxonomy of distinct names
C2_Witness ==
    /\ Len(written) >= 3
    /\ dataset.classes[1] # dataset.classes[2]
    /\ written[1].path # written[3].path
    /\ LabelSegment(written[1].path) = LabelSegment(written[3].path)
    /\ LabelSegment(written[1].path) # LabelSegment(written[2].path)

\* ------------------------------------------------------------------- C3
\* C3 as stated: a run over a dataset of n < 10 items ends abnormally with
\* exactly n files written, failing on the read of index n.
C3_ShortDatasetWritesExactlyN ==
    (Acquired /\ dataset.len < ExportCount /\ Terminated) =>
        /\ pc = "failed"
        /\ ~Reported
        /\ Len(written) = dataset.len
        /\ WrittenIndices = 0..(dataset.len - 1)
        /\ err = "IndexError"
        /\ LastStep \in {<<"getitem", dataset.len>>, <<"print_shape">>}

\* C3 amended: a run over a dataset of n < 10 items never emits the
\* completion report and never ends normally; the files it has written are
\* those of indices 0..k-1 for some k <= n; and when it gets as far as reading
\* index n (index 0 is first read by the metadata report) it fails there with
\* an index error, having written exactly the n files of indices 0..n-1.
C3_ShortDatasetFailsAtN ==
    (Acquired /\ dataset.len < ExportCount) =>
        /\ pc \notin {"report", "done"}
        /\ ~Reported
        /\ Len(written) <= dataset.len
        /\ \A k \in 1..Len(written) : written[k].index = k - 1
        /\ \A k \in 1..Len(steps) :
              steps[k][1] = "getitem" => steps[k][2] <= dataset.len
        /\ (Len(steps) > 0 /\ LastStep = <<"getitem", dataset.len>>) =>
              /\ pc = "failed"
              /\ err = "IndexError"
              /\ Len(written) = dataset.len
        /\ (Len(steps) > 0 /\ dataset.len = 0 /\ LastStep = <<"print_shape">>) =>
              /\ pc = "failed"
              /\ err = "IndexError"

C3_Witness ==
    /\ pc = "failed"
    /\ dataset.len = 5
    /\ LastStep = <<"getitem", 5>>
    /\ WrittenIndices = 0..4

\* ------------------------------------------------------------------- C4
\* C4: when data/samples is a regular file, the run fails at the directory
\* creation, writes no sample file and leaves that file in place.
C4_FileAtSamplesPathFailsMkdir ==
    fs0.samplesDir = "file" =>
        /\ FsState = fs0
        /\ written = <<>>
        /\ pc \notin LoopStatements \cup {"report", "done"}
        /\ (Len(steps) > 0 /\ LastStep = <<"mkdir">>) =>
              (pc = "failed" /\ err = "FileExistsError")

C4_Witness ==
    /\ pc = "failed"
    /\ err = "FileExistsError"
    /\ samplesDir = "file"
    /\ Len(out) = 3

\* ------------------------------------------------------------------- C5
\* C5: a run started on what a successful run left behind finds the directory
\* there (its creation is a no-op), overwrites files that exist already, fails
\* only if the environment fails it, and on success leaves the same set of
\* file names as the run before it.
C5_RerunKeepsFileNames ==
    run > 1 =>
        /\ fs0.samplesDir = "dir"
        /\ samplesDir = "dir"
        /\ dirs = fs0.dirs
        /\ WrittenPaths \subseteq prevNames
        /\ DOMAIN files = prevNames
        /\ (pc = "failed" => err \in EnvironmentErrors)
        /\ (pc = "done" => Len(written) = ExportCount)

C5_Witness ==
    /\ run = 2
    /\ pc = "done"
    /\ DOMAIN files = prevNames

\* ------------------------------------------------------------------- C6
\* C6: at every point of a run, failure included, each file the run has
\* written is still there with the content it was written with, and no two
\* writes of the run went to the same path.
C6_NoRollback ==
    /\ \A k \in 1..Len(written) :
          /\ written[k].path \in DOMAIN files
          /\ files[written[k].path] = written[k].content
    /\ Cardinality(WrittenPaths) = Len(written)

C6_Witness ==
    /\ pc = "failed"
    /\ Len(written) >= 2
    /\ LastStep[1] = "save"
    /\ dataset.classes[1] = dataset.classes[2]

\* ------------------------------------------------------------------- C7
\* C7: a failure ends the run: once a statement has raised, no statement
\* runs (nothing is written or printed after it), an error is never recorded
\* without ending the run, and within a run every step taken is one that was
\* not taken before.
C7_FailStopNoRetry ==
    [][ /\ pc = "failed" => UNCHANGED vars
        /\ err' # "none" => pc' = "failed"
        /\ pc' = "failed" => (err' # "none" /\ files' \in {files} \cup
                                 {[files EXCEPT ![q] = PartialContent] : q \in DOMAIN files}
                              /\ out' = out /\ written' = written)
        /\ run' = run =>
              /\ Len(steps') = Len(steps) + 1
              /\ SubSeq(steps', 1, Len(steps)) = steps
              /\ \A k \in 1..Len(steps) : steps[k] # steps'[Len(steps')]
      ]_vars

C7_Witness ==
    /\ pc = "failed"
    /\ err = "OSError"
    /\ Len(written) >= 1

\* ------------------------------------------------------------------- C8
\* the statements of the script in the order of the text, the loop unrolled
LoopStep(j) ==
    LET k == j \div 5
        r == j % 5
    IN  IF r = 0 THEN <<"for", k>>
        ELSE IF r = 1 THEN <<"getitem", k>>
        ELSE IF r = 2 THEN <<"classes", k>>
        ELSE IF r = 3 THEN <<"print", k>>
        ELSE <<"save", k>>

Preamble == << <<"acquire">>, <<"print_size">>, <<"print_shape">>, <<"print_labels">>, <<"mkdir">> >>

ProgramOrder ==
    Preamble \o [j \in 1..(5 * ExportCount) |-> LoopStep(j - 1)]
             \o << <<"for", ExportCount>>, <<"report">> >>

C8_LinearOrder ==
    /\ Len(steps) <= Len(ProgramOrder)
    /\ \A j \in 1..Len(steps) : steps[j] = ProgramOrder[j]
    /\ \A j \in 1..Len(steps) :
          steps[j][1] = "getitem" => 0..(steps[j][2] - 1) \subseteq WrittenIndices
    /\ Reported => (Len(written) = ExportCount /\ WrittenIndices = 0..(ExportCount - 1))
    /\ pc = "done" => (Reported /\ steps = ProgramOrder)

\* C8: the statements run in the order of the text (acquire, the three
\* metadata lines, the directory, then samples 0..9 in ascending order, each
\* read only after the file before it is written, then the completion
\* report); the report comes only when all 10 files of the run are written;
\* and every run ends, with the report or with a failure.
C8_LinearAndTerminates ==
    /\ []C8_LinearOrder
    /\ \A r \in 1..MaxRuns : (run = r) ~> (run = r /\ Terminated)

C8_Witness ==
    /\ pc = "done"
    /\ steps = ProgramOrder
    /\ Len(written) = ExportCount

\* ------------------------------------------------------------------- C9
\* C9: the label of a sample is printed before its file is written: the
\* label lines printed exceed the files written by 0 or 1; a successful run
\* has printed 10 of them; a run that fails writing sample i has printed
\* i + 1 and written i files.
C9_LabelPrintedBeforeWrite ==
    /\ LabelLines - Len(written) \in {0, 1}
    /\ pc = "done" => LabelLines = ExportCount
    /\ (pc = "failed" /\ LastStep[1] = "save") =>
          /\ LabelLines = LastStep[2] + 1
          /\ Len(written) = LastStep[2]

C9_Witness ==
    /\ pc = "failed"
    /\ LastStep = <<"save", 3>>
    /\ LabelLines = 4
    /\ Len(written) = 3

\* ------------------------------------------------------------------ C10
\* C10: nothing under data/samples changes before the metadata report is
\* complete; over an empty dataset the run fails in the metadata report, with
\* the size line printed and data/samples as it was; over a dataset of at
\* least one item the directory exists whenever the loop runs.
C10_MetadataBeforeDirectory ==
    /\ pc \in {"acquire", "print_size", "print_shape", "print_labels", "mkdir"} =>
          FsState = fs0
    /\ (Acquired /\ dataset.len = 0) =>
          /\ pc \in {"print_size", "print_shape", "failed"}
          /\ FsState = fs0
          /\ pc = "failed" =>
                /\ LastStep = <<"print_shape">>
                /\ err = "IndexError"
                /\ out = << <<"size", 0>> >>
    /\ (dataset.len >= 1 /\ pc \in (LoopStatements \ {"for"})) =>
          /\ samplesDir = "dir"
          /\ Len(out) >= 3

C10_Witness ==
    /\ pc = "failed"
    /\ dataset.len = 0
    /\ samplesDir = "absent"
    /\ out = << <<"size", 0>> >>

====
